---- MODULE Spec2Model ----
(***************************************************************************)
(* Model of audit_upgrade.py: the inventory parser (parse_apt_list), the   *)
(* risk analyzer (analyze_package with its two backends), the report       *)
(* builder (generate_report) and the orchestrator (main).                  *)
(*                                                                         *)
(* Python strings are sequences of one-character strings.  A dict is a     *)
(* sequence of entries with distinct names, in insertion order, which is   *)
(* the iteration order of a Python dict.                                   *)
(***************************************************************************)
EXTENDS Integers, Sequences, FiniteSets, TLC

VARIABLES
    pc,         \* position of the running function
    output,     \* parse_apt_list: its argument
    packages,   \* parse_apt_list: the dict it returns
    llm,        \* analyze_package: the backend argument
    resp,       \* analyze_package: what the HTTP exchange of the request does
    item,       \* analyze_package: the record it returns
    args,       \* main: the parsed command line
    environ,    \* main: os.environ, the value of OPENAI_API_KEY
    key,        \* main: the credential of the hosted backend
    installed,  \* main: the installed inventory
    upgradable, \* main: the upgradable inventory
    up_text,    \* main: the upgradable listing as it was read
    items,      \* main: the result list
    report,     \* main: the lines of the report
    log,        \* main: what the run has done to the outside, in order
    status,     \* main: exit status of the process: running, zero, nonzero
    exc         \* main: the call that raised the uncaught exception

parseVars   == <<output, packages>>
analyzeVars == <<llm, resp, item>>
mainVars    == <<args, environ, key, installed, upgradable, up_text, items,
                 report, log, status, exc>>
vars == <<pc, parseVars, analyzeVars, mainVars>>

(***************************************************************************)
(* Bounds                                                                  *)
(***************************************************************************)
MaxLen == 7     \* longest listing text given to parse_apt_list on its own
MaxChunks == 3  \* most chunks in a backend reply or failure cause
MaxLines == 3   \* most lines of the upgradable listing in a run of main

(***************************************************************************)
(* str methods used by the program                                         *)
(***************************************************************************)
Alphabet == {"a", "/", " ", "\n"}

IsSpace(c) == c = " " \/ c = "\n"

\* "/" in line
InStr(c, s) == \E i \in 1..Len(s) : s[i] = c

\* str.splitlines(): the pieces between line breaks, no trailing empty piece
RECURSIVE splitlines(_)
splitlines(s) ==
    IF s = <<>> THEN <<>>
    ELSE IF InStr("\n", s)
         THEN LET k == CHOOSE i \in 1..Len(s) :
                          s[i] = "\n" /\ \A j \in 1..(i-1) : s[j] # "\n"
              IN  <<SubSeq(s, 1, k-1)>> \o splitlines(SubSeq(s, k+1, Len(s)))
         ELSE <<s>>

\* str.split(): the maximal runs of non-whitespace characters
RECURSIVE split(_)
split(s) ==
    IF s = <<>> THEN <<>>
    ELSE IF IsSpace(s[1]) THEN split(Tail(s))
    ELSE LET ends == {i \in 1..Len(s) : i = Len(s) \/ IsSpace(s[i+1])}
             e    == CHOOSE i \in ends : \A j \in ends : i <= j
         IN  <<SubSeq(s, 1, e)>> \o split(SubSeq(s, e+1, Len(s)))

\* token.split("/")[0]
RECURSIVE splitSlashFirst(_)
splitSlashFirst(t) ==
    IF t = <<>> \/ t[1] = "/" THEN <<>>
    ELSE <<t[1]>> \o splitSlashFirst(Tail(t))

(***************************************************************************)
(* dict operations                                                         *)
(***************************************************************************)
Keys(d) == {d[i].name : i \in 1..Len(d)}

\* d[name] = version : a new key goes last, an old key keeps its place
DictSetMoveLast(d, name, version) ==
    Append(SelectSeq(d, LAMBDA e : e.name # name),
           [name |-> name, version |-> version])

DictSetKeepFirst(d, name, version) ==
    IF name \in Keys(d) THEN d
    ELSE Append(d, [name |-> name, version |-> version])

DictSet(d, name, version) ==
    IF name \in Keys(d)
    THEN [i \in 1..Len(d) |->
             IF d[i].name = name THEN [name |-> name, version |-> version]
             ELSE d[i]]
    ELSE Append(d, [name |-> name, version |-> version])

\* d.get(name, "")
DictGet(d, name) ==
    IF name \in Keys(d)
    THEN (d[CHOOSE i \in 1..Len(d) : d[i].name = name]).version
    ELSE <<>>

(***************************************************************************)
(* parse_apt_list                                                          *)
(***************************************************************************)
\* the body of the for loop, for one line
ParseLine(d, line) ==
    IF line = <<>> \/ ~InStr("/", line) THEN d
    ELSE LET parts   == split(line)
             name    == splitSlashFirst(parts[1])
             version == IF Len(parts) > 1 THEN parts[2] ELSE <<>>
         IN  DictSet(d, name, version)

RECURSIVE ParseLines(_, _)
ParseLines(d, lines) ==
    IF lines = <<>> THEN d
    ELSE ParseLines(ParseLine(d, Head(lines)), Tail(lines))

parse_apt_list(text) == ParseLines(<<>>, splitlines(text))

\* parts[0] of a line that passed the test but has no token: IndexError
ParseRaises(text) ==
    \E i \in 1..Len(splitlines(text)) :
        LET line == splitlines(text)[i]
        IN  line # <<>> /\ InStr("/", line) /\ split(line) = <<>>


(***************************************************************************)
(* str methods used by analyze_package                                     *)
(***************************************************************************)
UpperToLower ==
    ("A" :> "a") @@ ("B" :> "b") @@ ("E" :> "e") @@ ("F" :> "f") @@
    ("G" :> "g") @@ ("I" :> "i") @@ ("K" :> "k") @@ ("L" :> "l") @@
    ("M" :> "m") @@ ("N" :> "n") @@ ("O" :> "o") @@ ("R" :> "r") @@
    ("S" :> "s") @@ ("T" :> "t") @@ ("U" :> "u")

\* str.lower()
lowerIdentity(s) == s

lower(s) ==
    [i \in 1..Len(s) |->
        IF s[i] \in DOMAIN UpperToLower THEN UpperToLower[s[i]] ELSE s[i]]

\* sub in s
Contains(sub, s) ==
    \E i \in 0..(Len(s) - Len(sub)) : SubSeq(s, i+1, i+Len(sub)) = sub

\* str.strip()
RECURSIVE lstrip(_)
lstrip(s) == IF s # <<>> /\ IsSpace(s[1]) THEN lstrip(Tail(s)) ELSE s

RECURSIVE rstrip(_)
rstrip(s) ==
    IF s # <<>> /\ IsSpace(s[Len(s)]) THEN rstrip(SubSeq(s, 1, Len(s)-1)) ELSE s

strip(s) == rstrip(lstrip(s))

sSafe     == <<"s","a","f","e">>
sNotSafe  == <<"n","o","t"," ","s","a","f","e">>
sBreaking == <<"b","r","e","a","k","i","n","g">>

OpenAIFailed ==
    <<"O","p","e","n","A","I"," ","r","e","q","u","e","s","t"," ",
      "f","a","i","l","e","d",":"," ">>
OpenLLMFailed ==
    <<"O","p","e","n","L","L","M"," ","r","e","q","u","e","s","t"," ",
      "f","a","i","l","e","d",":"," ">>

(***************************************************************************)
(* The backends.  r is what the HTTP exchange does: r.ok with the content  *)
(* of the reply in r.text, or an exception (connection error, timeout,     *)
(* error status, malformed body) whose str() is r.text.  posts lists the   *)
(* requests.post calls made.                                               *)
(***************************************************************************)
openai_requestRetry(r) ==
    [answer |-> IF r.ok THEN strip(r.text) ELSE OpenAIFailed \o r.text,
     posts  |-> IF r.ok THEN <<"openai">> ELSE <<"openai", "openai">>]

openai_requestBare(r) ==
    [answer |-> IF r.ok THEN strip(r.text) ELSE r.text,
     posts  |-> <<"openai">>]

openai_request(r) ==
    [answer |-> IF r.ok THEN strip(r.text) ELSE OpenAIFailed \o r.text,
     posts  |-> <<"openai">>]

openllm_request(r) ==
    [answer |-> IF r.ok THEN strip(r.text) ELSE OpenLLMFailed \o r.text,
     posts  |-> <<"openllm">>]

(***************************************************************************)
(* analyze_package.  The prompt only travels to the backend, whose reply   *)
(* is r whatever the prompt says, so the prompt is not kept.               *)
(***************************************************************************)
analyze_packageNoNotSafe(name, current, candidate, config_path, backend, r) ==
    LET req    == IF backend = "openllm" THEN openllm_request(r)
                  ELSE openai_request(r)
        answer == req.answer
    IN  [item  |-> [name      |-> name,
                    current   |-> current,
                    candidate |-> candidate,
                    config    |-> config_path,
                    breaking  |-> Contains(sBreaking, lower(answer)),
                    safe      |-> Contains(sSafe, lower(answer)),
                    summary   |-> answer],
         posts |-> req.posts]

analyze_package(name, current, candidate, config_path, backend, r) ==
    LET req    == IF backend = "openllm" THEN openllm_request(r)
                  ELSE openai_request(r)
        answer == req.answer
        safe   == /\ Contains(sSafe, lower(answer))
                  /\ ~Contains(sNotSafe, lower(answer))
        breaking == Contains(sBreaking, lower(answer))
    IN  [item  |-> [name      |-> name,
                    current   |-> current,
                    candidate |-> candidate,
                    config    |-> config_path,
                    breaking  |-> breaking,
                    safe      |-> safe,
                    summary   |-> answer],
         posts |-> req.posts]

(***************************************************************************)
(* Specification of parse_apt_list alone                                   *)
(***************************************************************************)
Texts == UNION {[1..n -> Alphabet] : n \in 0..MaxLen}

IdleParse ==
    /\ output = <<>>
    /\ packages = <<>>

IdleAnalyze ==
    /\ llm = "openai"
    /\ resp = [ok |-> TRUE, text |-> <<>>]
    /\ item = <<>>

IdleMain ==
    /\ args = <<>>
    /\ environ = <<>>
    /\ key = <<>>
    /\ installed = <<>>
    /\ upgradable = <<>>
    /\ up_text = <<>>
    /\ items = <<>>
    /\ report = <<>>
    /\ log = <<>>
    /\ status = "running"
    /\ exc = "none"

InitParse ==
    /\ pc = "parse"
    /\ output \in Texts
    /\ packages = <<>>
    /\ IdleAnalyze
    /\ IdleMain

Parse ==
    /\ pc = "parse"
    /\ IF ParseRaises(output)
       THEN pc' = "raised" /\ UNCHANGED packages
       ELSE pc' = "parsed" /\ packages' = parse_apt_list(output)
    /\ UNCHANGED <<output, analyzeVars, mainVars>>

NextParse == Parse

SpecParse == InitParse /\ [][NextParse]_vars

(***************************************************************************)
(* Specification of analyze_package alone                                  *)
(***************************************************************************)
Chunks ==
    { sSafe,
      <<"S","a","f","e">>,
      <<"n","o","t"," ">>,
      <<"N","O","T"," ">>,
      <<"b","r","e","a","k">>,
      <<"i","n","g">>,
      <<"B","R","E","A","K","I","N","G">>,
      <<"u","n">>,
      <<" ">>,
      <<"t","i","m","e","o","u","t">> }

RECURSIVE ChunkTexts(_)
ChunkTexts(n) ==
    IF n = 0 THEN {<<>>}
    ELSE LET shorter == ChunkTexts(n-1)
         IN  shorter \cup {t \o c : t \in shorter, c \in Chunks}

PkgA == <<"a">>
Ver1 == <<"1">>
Ver2 == <<"2">>

InitAnalyze ==
    /\ pc = "analyze"
    /\ llm \in {"openai", "openllm"}
    /\ resp \in [ok : BOOLEAN, text : ChunkTexts(MaxChunks)]
    /\ item = <<>>
    /\ IdleParse
    /\ IdleMain

Analyze ==
    /\ pc = "analyze"
    /\ item' = analyze_package(PkgA, Ver1, Ver2, <<>>, llm, resp).item
    /\ pc' = "analyzed"
    /\ UNCHANGED <<parseVars, llm, resp, mainVars>>

NextAnalyze == Analyze

SpecAnalyze == InitAnalyze /\ [][NextAnalyze]_vars

(***************************************************************************)
(* generate_report: the list `lines` that the function joins with "\n".    *)
(* A line is kept as its kind (the fixed markup around it) and the field   *)
(* values put in it.                                                       *)
(***************************************************************************)
sOui == <<"O","u","i">>
sNon == <<"N","o","n">>

HtmlRow(it) ==
    [kind  |-> "tr",
     cells |-> << it.name, it.current, it.candidate,
                  IF it.breaking THEN sOui ELSE sNon,
                  IF it.safe THEN sSafe ELSE sNotSafe,
                  it.config,
                  it.summary >>]

MdSection(it) ==
    << [kind |-> "h2",        text |-> it.name],
       [kind |-> "current",   text |-> it.current],
       [kind |-> "candidate", text |-> it.candidate],
       [kind |-> "breaking",  text |-> IF it.breaking THEN sOui ELSE sNon],
       [kind |-> "status",    text |-> IF it.safe THEN sSafe ELSE sNotSafe] >>
    \o (IF it.config # <<>>
        THEN << [kind |-> "config", text |-> it.config] >> ELSE << >>)
    \o << [kind |-> "analysis", text |-> it.summary] >>

RECURSIVE HtmlRows(_)
HtmlRows(its) ==
    IF its = <<>> THEN <<>> ELSE <<HtmlRow(Head(its))>> \o HtmlRows(Tail(its))

RECURSIVE MdSections(_)
MdSections(its) ==
    IF its = <<>> THEN <<>> ELSE MdSection(Head(its)) \o MdSections(Tail(its))

generate_report(its, fmt) ==
    IF fmt = "html"
    THEN << [kind |-> "html"], [kind |-> "h1"], [kind |-> "table"],
            [kind |-> "th"] >>
         \o HtmlRows(its)
         \o << [kind |-> "/table"], [kind |-> "/html"] >>
    ELSE << [kind |-> "h1"] >> \o MdSections(its)

(***************************************************************************)
(* main                                                                    *)
(***************************************************************************)
\* a or b
Or(a, b) == IF a # <<>> THEN a ELSE b

sKey  == <<"k">>
sPath == <<"f">>
sEtc  == <<"/","e","t","c","/">>

\* the lines a listing of the run is made of, and the listings
UpLines ==
    { <<"a","/","s"," ","1">>,
      <<"b","/","s"," ","2">>,
      <<"a","/","s">> }

RECURSIVE JoinLines(_)
JoinLines(ls) ==
    IF ls = <<>> THEN <<>>
    ELSE IF Len(ls) = 1 THEN ls[1]
    ELSE ls[1] \o <<"\n">> \o JoinLines(Tail(ls))

UpgradableTexts ==
    {JoinLines(ls) : ls \in UNION {[1..n -> UpLines] : n \in 0..MaxLines}}

InstalledTexts == { <<"a","/","s"," ","0">> }

\* the backend exchanges of a run: a reply, a failure
Resps ==
    { [ok |-> TRUE,  text |-> sSafe],
      [ok |-> FALSE, text |-> <<"t","i","m","e","o","u","t">>] }

InitMain ==
    /\ pc = "start"
    /\ args \in [llm            : {"openai", "openllm"},
                 openai_key     : {<<>>, sKey},
                 installed_file : {<<>>, sPath},
                 upgradable_file: {<<>>, sPath},
                 no_email       : BOOLEAN,
                 format         : {"md", "html"}]
    /\ environ \in {<<>>, sKey}
    /\ key = <<>>
    /\ installed = <<>>
    /\ upgradable = <<>>
    /\ up_text = <<>>
    /\ items = <<>>
    /\ report = <<>>
    /\ log = <<>>
    /\ status = "running"
    /\ exc = "none"
    /\ IdleParse
    /\ IdleAnalyze

\* lines 230-234: the credential, and the exit when the hosted backend has none
StartNoCheck ==
    /\ pc = "start"
    /\ key' = Or(args.openai_key, environ)
    /\ pc' = "installed"
    /\ UNCHANGED <<parseVars, analyzeVars, args, environ, installed,
                   upgradable, up_text, items, report, log, status, exc>>

Start ==
    /\ pc = "start"
    /\ key' = Or(args.openai_key, environ)
    /\ IF args.llm = "openai" /\ key' = <<>>
       THEN pc' = "exit" /\ status' = "nonzero"
       ELSE pc' = "installed" /\ UNCHANGED status
    /\ UNCHANGED <<parseVars, analyzeVars, args, environ, installed,
                   upgradable, up_text, items, report, log, exc>>

\* load_packages_from_file: open() or read() raises
Raise(where) ==
    /\ pc' = "raised"
    /\ exc' = where
    /\ status' = "nonzero"

\* lines 236-238: get_installed_packages
GetInstalledCmdRaise ==
    /\ pc = "installed"
    /\ \/ /\ Raise(IF args.installed_file # <<>> THEN "installed_file"
                   ELSE "run_cmd")
          /\ UNCHANGED <<installed, log>>
       \/ \E text \in InstalledTexts :
             /\ installed' = parse_apt_list(text)
             /\ log' = Append(log, [ev |-> "installed"])
             /\ pc' = "upgradable"
             /\ UNCHANGED <<status, exc>>
    /\ UNCHANGED <<parseVars, analyzeVars, args, environ, key, upgradable,
                   up_text, items, report>>

GetInstalled ==
    /\ pc = "installed"
    /\ \/ /\ args.installed_file # <<>>
          /\ Raise("installed_file")
          /\ UNCHANGED <<installed, log>>
       \/ \E text \in InstalledTexts :
             /\ installed' = parse_apt_list(text)
             /\ log' = Append(log, [ev |-> "installed"])
             /\ pc' = "upgradable"
             /\ UNCHANGED <<status, exc>>
    /\ UNCHANGED <<parseVars, analyzeVars, args, environ, key, upgradable,
                   up_text, items, report>>

\* lines 239-241: get_upgradable_packages
GetUpgradable ==
    /\ pc = "upgradable"
    /\ \/ /\ args.upgradable_file # <<>>
          /\ Raise("upgradable_file")
          /\ UNCHANGED <<upgradable, up_text, log>>
       \/ \E text \in UpgradableTexts :
             /\ up_text' = text
             /\ upgradable' = parse_apt_list(text)
             /\ log' = Append(log, [ev |-> "upgradable"])
             /\ pc' = "loop"
             /\ UNCHANGED <<status, exc>>
    /\ UNCHANGED <<parseVars, analyzeVars, args, environ, key, installed,
                   items, report>>

\* the file system of the run: /etc/a exists, no other candidate does
Exists(path) == path = sEtc \o <<"a">>

\* find_config_path: the first candidate that exists, None when the search
\* finds nothing either
find_config_path(pkg) == IF Exists(sEtc \o pkg) THEN sEtc \o pkg ELSE <<>>

\* the requests.post calls of one analysis, as entries of the log
PostEvents(posts, pkg) ==
    [i \in 1..Len(posts) |-> [ev |-> "post", backend |-> posts[i], pkg |-> pkg]]

\* lines 244-260: one turn of the loop
AnalyzeNextDrop ==
    /\ pc = "loop"
    /\ Len(items) < Len(upgradable)
    /\ LET e == upgradable[Len(items) + 1]
       IN  \E r \in Resps :
             LET res == analyze_package(e.name, DictGet(installed, e.name),
                                        e.version, find_config_path(e.name),
                                        args.llm, r)
             IN  /\ items' = IF r.ok THEN Append(items, res.item) ELSE items
                 /\ upgradable' = IF r.ok THEN upgradable
                                  ELSE [i \in 1..(Len(upgradable)-1) |->
                                          IF i <= Len(items) THEN upgradable[i]
                                          ELSE upgradable[i+1]]
                 /\ log' = log \o <<[ev |-> "analyze", pkg |-> e.name]>>
                             \o PostEvents(res.posts, e.name)
    /\ UNCHANGED <<pc, parseVars, analyzeVars, args, environ, key, installed,
                   up_text, report, status, exc>>

AnalyzeNextRaise ==
    /\ pc = "loop"
    /\ Len(items) < Len(upgradable)
    /\ LET e == upgradable[Len(items) + 1]
       IN  \E r \in Resps :
             LET res == analyze_package(e.name, DictGet(installed, e.name),
                                        e.version, find_config_path(e.name),
                                        args.llm, r)
             IN  /\ log' = log \o <<[ev |-> "analyze", pkg |-> e.name]>>
                             \o PostEvents(res.posts, e.name)
                 /\ IF r.ok
                    THEN /\ items' = Append(items, res.item)
                         /\ UNCHANGED <<pc, status, exc>>
                    ELSE /\ Raise("analyze_package")
                         /\ UNCHANGED items
    /\ UNCHANGED <<parseVars, analyzeVars, args, environ, key, installed,
                   upgradable, up_text, report>>

AnalyzeNext ==
    /\ pc = "loop"
    /\ Len(items) < Len(upgradable)
    /\ LET e == upgradable[Len(items) + 1]
       IN  \E r \in Resps :
             LET res == analyze_package(e.name, DictGet(installed, e.name),
                                        e.version, find_config_path(e.name),
                                        args.llm, r)
             IN  /\ items' = Append(items, res.item)
                 /\ log' = log \o <<[ev |-> "analyze", pkg |-> e.name]>>
                             \o PostEvents(res.posts, e.name)
    /\ UNCHANGED <<pc, parseVars, analyzeVars, args, environ, key, installed,
                   upgradable, up_text, report, status, exc>>

\* lines 262-263: the loop is over
GenerateReport ==
    /\ pc = "loop"
    /\ Len(items) = Len(upgradable)
    /\ report' = generate_report(items, args.format)
    /\ log' = Append(log, [ev |-> "report"])
    /\ pc' = "deliver"
    /\ UNCHANGED <<parseVars, analyzeVars, args, environ, key, installed,
                   upgradable, up_text, items, status, exc>>

\* lines 265-271: the report is written to args.output or mailed; open(),
\* write() and Popen() may raise, and nothing catches it
Deliver ==
    /\ pc = "deliver"
    /\ \/ /\ Raise(IF args.no_email THEN "open" ELSE "send_email")
          /\ UNCHANGED log
       \/ /\ log' = Append(log, [ev |-> IF args.no_email THEN "write" ELSE "mail"])
          /\ pc' = "done"
          /\ status' = "zero"
          /\ UNCHANGED exc
    /\ UNCHANGED <<parseVars, analyzeVars, args, environ, key, installed,
                   upgradable, up_text, items, report>>

Next ==
    \/ Start
    \/ GetInstalled
    \/ GetUpgradable
    \/ AnalyzeNext
    \/ GenerateReport
    \/ Deliver

Spec == InitMain /\ [][Next]_vars

\* the interpreter runs the program until it exits
FairSpec == Spec /\ WF_vars(Next)

(***************************************************************************)
(* What a listing says, read off the text position by position             *)
(***************************************************************************)
MinOf(S) == CHOOSE x \in S : \A y \in S : x <= y
MaxOf(S) == CHOOSE x \in S : \A y \in S : y <= x

\* where the non-empty lines of t start
LineStartsOf(t) ==
    {b \in 1..Len(t) : t[b] # "\n" /\ (b = 1 \/ t[b-1] = "\n")}

\* the line of t that starts at b
LineFrom(t, b) ==
    LET breaks == {j \in b..Len(t) : t[j] = "\n"}
    IN  SubSeq(t, b, IF breaks = {} THEN Len(t) ELSE MinOf(breaks) - 1)

\* where the tokens of a line start
TokenStartsOf(line) ==
    {b \in 1..Len(line) : line[b] # " " /\ (b = 1 \/ line[b-1] = " ")}

\* the token of a line that starts at b
TokenFrom(line, b) ==
    LET blanks == {j \in b..Len(line) : line[j] = " "}
    IN  SubSeq(line, b, IF blanks = {} THEN Len(line) ELSE MinOf(blanks) - 1)

\* the n-th token of a line, the empty string when there is none
TokenNo(line, n) ==
    LET starts == TokenStartsOf(line)
        nth    == {b \in starts : Cardinality({o \in starts : o < b}) = n - 1}
    IN  IF nth = {} THEN <<>> ELSE TokenFrom(line, CHOOSE b \in nth : TRUE)

\* the text before the first "/" of a token (the token when it has none)
BeforeSlash(tok) ==
    LET cut == {k \in 1..Len(tok) : tok[k] = "/"}
    IN  IF cut = {} THEN tok ELSE SubSeq(tok, 1, MinOf(cut) - 1)

NameOfLine(line)    == BeforeSlash(TokenNo(line, 1))
VersionOfLine(line) == TokenNo(line, 2)

\* where the lines of t that contain "/" start
SlashLinesOf(t) ==
    {b \in LineStartsOf(t) :
        LET line == LineFrom(t, b) IN \E k \in 1..Len(line) : line[k] = "/"}

\* the lines of t that contain "/", as pairs <<start, name>>
NamedLines(t) == {<<b, NameOfLine(LineFrom(t, b))>> : b \in SlashLinesOf(t)}

\* the names a set of such pairs lists, and the lines that list name n
NamesIn(nl) == {p[2] : p \in nl}
StartsOf(nl, n) == {p[1] : p \in {q \in nl : q[2] = n}}

ListedNames(t) == NamesIn(NamedLines(t))

(***************************************************************************)
(* Claims about parse_apt_list (SpecParse)                                 *)
(***************************************************************************)
\* C4: for any listing text parse_apt_list does not raise; the names of the
\* mapping it returns are exactly the names (text before the first "/" of
\* the first token) of the lines containing "/", each once; and the version
\* of a name is the second token (or the empty string) of the last line
\* with that name.
C4_ParseContract ==
    /\ pc # "raised"
    /\ pc = "parsed" =>
         LET nl == NamedLines(output)
         IN  /\ Keys(packages) = NamesIn(nl)
             /\ Cardinality(Keys(packages)) = Len(packages)
             /\ \A i \in 1..Len(packages) :
                   LET last == MaxOf(StartsOf(nl, packages[i].name))
                   IN  packages[i].version
                         = VersionOfLine(LineFrom(output, last))

\* a name on two lines with different versions, and a line without "/"
C4_Witness ==
    /\ pc = "parsed"
    /\ \E b1, b2 \in SlashLinesOf(output) :
          /\ b1 < b2
          /\ NameOfLine(LineFrom(output, b1)) = NameOfLine(LineFrom(output, b2))
          /\ VersionOfLine(LineFrom(output, b1)) # VersionOfLine(LineFrom(output, b2))
    /\ LineStartsOf(output) \ SlashLinesOf(output) # {}
    /\ Len(packages) = 1

\* C8: every key of the inventory returned by parse_apt_list is a non-empty
\* package name.
C8_KeysNonEmpty ==
    pc = "parsed" => \A i \in 1..Len(packages) : packages[i].name # <<>>

(***************************************************************************)
(* Claims about analyze_package (SpecAnalyze)                              *)
(***************************************************************************)
LowerOf(c) == IF c \in DOMAIN UpperToLower THEN UpperToLower[c] ELSE c

\* sub occurs in s when case is ignored (sub is in lower case)
ContainsNoCase(sub, s) ==
    \E off \in 0..(Len(s) - Len(sub)) :
        \A k \in 1..Len(sub) : LowerOf(s[off + k]) = sub[k]

FailedPrefixOf(backend) ==
    IF backend = "openllm" THEN OpenLLMFailed ELSE OpenAIFailed

FailedPrefix == FailedPrefixOf(llm)

Contained ==
    /\ item.summary = FailedPrefix \o resp.text
    /\ item.summary # <<>>
    /\ item.safe = FALSE
    /\ item.breaking = FALSE

\* C2 as stated: a failed backend call whose cause text contains neither
\* "safe" nor "breaking" yields the summary "<Backend> request failed:
\* <cause>" with safe=false and breaking=false.
C2_AsStated ==
    (/\ pc = "analyzed"
     /\ ~resp.ok
     /\ ~Contains(sSafe, resp.text)
     /\ ~Contains(sBreaking, resp.text)) => Contained

\* C2 amended: the same, for a cause text that contains neither "safe" nor
\* "breaking" in any letter case; analyze_package returns normally.
C2_FailureContained ==
    /\ pc \in {"analyze", "analyzed"}
    /\ (/\ pc = "analyzed"
        /\ ~resp.ok
        /\ ~ContainsNoCase(sSafe, resp.text)
        /\ ~ContainsNoCase(sBreaking, resp.text)) => Contained

\* a failed call with cause "timeout"
C2_Witness ==
    /\ pc = "analyzed"
    /\ ~resp.ok
    /\ resp.text = <<"t","i","m","e","o","u","t">>
    /\ item.summary = FailedPrefix \o resp.text
    /\ ~item.safe /\ ~item.breaking

\* C3: safe is true iff the text, in lower case, contains "safe" and does
\* not contain "not safe"; breaking is true iff it contains "breaking".
\* The text is the reply of the backend or the synthetic failure string.
C3_Classification ==
    pc = "analyzed" =>
      /\ item.safe = (/\ ContainsNoCase(sSafe, item.summary)
                      /\ ~ContainsNoCase(sNotSafe, item.summary))
      /\ item.breaking = ContainsNoCase(sBreaking, item.summary)
      /\ resp.ok =>
            /\ item.safe = (/\ ContainsNoCase(sSafe, resp.text)
                            /\ ~ContainsNoCase(sNotSafe, resp.text))
            /\ item.breaking = ContainsNoCase(sBreaking, resp.text)
      /\ ContainsNoCase(sNotSafe, item.summary) => ~item.safe

\* a reply with "not safe" after another "safe", in mixed case
C3_Witness ==
    /\ pc = "analyzed"
    /\ resp.ok
    /\ resp.text = <<"S","a","f","e">> \o <<"N","O","T"," ">> \o sSafe
    /\ ~item.safe

(***************************************************************************)
(* Claims about main (Spec, FairSpec)                                      *)
(***************************************************************************)
CredentialMissing ==
    args.llm = "openai" /\ args.openai_key = <<>> /\ environ = <<>>

ReportGenerated == report # <<>>

\* the names of the sections (Markdown) or rows (HTML) of the report
SectionNames ==
    LET secs == SelectSeq(report,
                  LAMBDA l : l.kind = IF args.format = "html" THEN "tr" ELSE "h2")
    IN  [i \in 1..Len(secs) |->
            IF args.format = "html" THEN secs[i].cells[1] ELSE secs[i].text]

ItemNames == [i \in 1..Len(items) |-> items[i].name]

Posts == SelectSeq(log, LAMBDA e : e.ev = "post")
Analyses == SelectSeq(log, LAMBDA e : e.ev = "analyze")

IsFailure(it) ==
    /\ Len(it.summary) >= Len(FailedPrefixOf(args.llm))
    /\ SubSeq(it.summary, 1, Len(FailedPrefixOf(args.llm))) = FailedPrefixOf(args.llm)

\* C1: once the loop is over the result list holds exactly one AuditResult
\* per distinct name of the upgradable listing, and the report has exactly
\* one section or row per result.
C1_OnePerPackage ==
    ReportGenerated =>
      LET names == ListedNames(up_text)
          secs  == SectionNames
      IN  /\ \A n \in names :
                Cardinality({i \in 1..Len(items) : items[i].name = n}) = 1
          /\ \A i \in 1..Len(items) : items[i].name \in names
          /\ Len(secs) = Len(items)
          /\ \A i \in 1..Len(items) :
                Cardinality({j \in 1..Len(secs) : secs[j] = items[i].name}) = 1

\* two packages, one named twice in the listing, one analysis failed
C1_Witness ==
    /\ ReportGenerated
    /\ Len(items) = 2
    /\ Cardinality(SlashLinesOf(up_text)) = 3
    /\ \E i \in 1..2 : IsFailure(items[i])
    /\ \E i \in 1..2 : ~IsFailure(items[i])

\* C9: packages are analysed in the order in which each name first appears
\* in the upgradable listing, the result list keeps that order, and the
\* report has its sections or rows in that order.
C9_Order ==
    items # <<>> =>
      LET nl    == NamedLines(up_text)
          first == [i \in 1..Len(items) |-> MinOf(StartsOf(nl, items[i].name))]
          done  == Analyses
      IN  /\ \A i, j \in 1..Len(items) : i < j => first[i] < first[j]
          /\ [i \in 1..Len(done) |-> done[i].pkg] = ItemNames
          /\ ReportGenerated => SectionNames = ItemNames

\* the listing names a, then b, then a again: a is analysed before b
C9_Witness ==
    /\ pc = "done"
    /\ Len(splitlines(up_text)) = 3
    /\ NameOfLine(splitlines(up_text)[1]) = NameOfLine(splitlines(up_text)[3])
    /\ NameOfLine(splitlines(up_text)[1]) # NameOfLine(splitlines(up_text)[2])
    /\ Len(items) = 2
    /\ items[1].name = NameOfLine(splitlines(up_text)[1])
    /\ SectionNames[2] = NameOfLine(splitlines(up_text)[2])

\* C10: in a run that reaches report generation exactly one backend request
\* was made for each upgradable package, on the chosen backend, whether it
\* succeeded or failed.
C10_OneRequestPerPackage ==
    ReportGenerated =>
      LET names == ListedNames(up_text)
          posts == Posts
      IN  /\ Len(posts) = Cardinality(names)
          /\ \A n \in names :
                Cardinality({i \in 1..Len(posts) : posts[i].pkg = n}) = 1
          /\ \A i \in 1..Len(posts) : posts[i].backend = args.llm

\* both requests of a run of two packages failed
C10_Witness ==
    /\ ReportGenerated
    /\ Len(items) = 2
    /\ \A i \in 1..2 : IsFailure(items[i])
    /\ Len(Posts) = 2

\* C5: with the hosted backend and no credential the run exits with a
\* non-zero status, and neither inventory is obtained, no package analysed,
\* no backend call made, no report generated, written or mailed.
C5_NoCredentialExit ==
    /\ [](CredentialMissing =>
            /\ pc \in {"start", "exit"}
            /\ pc = "exit" => status = "nonzero"
            /\ log = <<>> /\ installed = <<>> /\ upgradable = <<>>
            /\ items = <<>> /\ report = <<>>)
    /\ (CredentialMissing ~> (pc = "exit" /\ status = "nonzero"))

C5_Witness ==
    CredentialMissing /\ pc = "exit" /\ status = "nonzero" /\ log = <<>>

\* C6 as stated: unless the hosted backend is selected without credential
\* the run completes and produces a report; no such run is aborted.
C6_AsStated ==
    ~CredentialMissing => pc # "raised"

\* C6 amended: unless the hosted backend is selected without credential, a
\* run in which every listing file given can be read always generates a
\* report, even if every analysis failed, and completes unless writing or
\* mailing the report fails.
C6_Completes ==
    ~CredentialMissing ~>
        \/ pc = "done" /\ ReportGenerated /\ status = "zero"
        \/ pc = "raised" /\ exc \in {"installed_file", "upgradable_file"}
        \/ pc = "raised" /\ exc \in {"open", "send_email"} /\ ReportGenerated

\* a completed run in which every analysis failed
C6_Witness ==
    /\ pc = "done"
    /\ Len(items) = 2
    /\ \A i \in 1..Len(items) : IsFailure(items[i])
    /\ Len(SectionNames) = 2

\* C7 as stated: a run completes with a report covering every upgradable
\* package or fails before the first analysis begins; none fails later.
C7_AsStated ==
    pc \in {"exit", "raised"} => Len(Analyses) = 0 /\ items = <<>>

\* C7 amended: a run ends completed, with one report covering every
\* upgradable package; or failed before the first analysis (missing
\* credential, unreadable listing file); or failed while the generated
\* report is written or mailed.  No run fails during the loop or the
\* generation of the report.
C7_Endings ==
    /\ pc = "done" =>
          /\ ReportGenerated
          /\ LET secs == SectionNames
             IN  {secs[i] : i \in 1..Len(secs)} = ListedNames(up_text)
          /\ Len(SelectSeq(log, LAMBDA e : e.ev \in {"write", "mail"})) = 1
          /\ Len(SelectSeq(log, LAMBDA e : e.ev = "report")) = 1
    /\ pc = "exit" => CredentialMissing /\ Len(Analyses) = 0
    /\ pc = "raised" =>
          \/ /\ exc \in {"installed_file", "upgradable_file"}
             /\ Len(Analyses) = 0 /\ items = <<>> /\ ~ReportGenerated
          \/ /\ exc \in {"open", "send_email"}
             /\ ReportGenerated
             /\ Len(Analyses) = Cardinality(ListedNames(up_text))
             /\ Len(SelectSeq(log, LAMBDA e : e.ev \in {"write", "mail"})) = 0

\* mailing fails after two packages were analysed
C7_Witness ==
    /\ pc = "raised"
    /\ exc = "send_email"
    /\ Len(Analyses) = 2
    /\ ReportGenerated

====
